---- MODULE Spec2Model ----
(***************************************************************************)
(* A model of the Edgehog ESP32 device runtime (src/src/edgehog_device.c): *)
(* device construction and schema registration, the Wi-Fi scan listener    *)
(* and its event handler, the per access point telemetry, the appliance    *)
(* property setters backed by NVS, and destruction.                        *)
(*                                                                         *)
(* Every operation of the API is one action.  Each action records in       *)
(* `last` what it was called with, what it returned and the sequence of    *)
(* calls it made to the platform (Astarte SDK, NVS, event loop, Wi-Fi      *)
(* driver), in program order.                                              *)
(***************************************************************************)
EXTENDS Integers, Sequences, FiniteSets, TLC

VARIABLES
    ndebug,      \* build option: NDEBUG defined, ESP_ERROR_CHECK ignores errors
    alive,       \* FALSE once the process has aborted or crashed
    dev,         \* the heap: struct edgehog_device_t per handle
    released,    \* number of astarte_device_destroy calls made
    listeners,   \* handler args registered on WIFI_EVENT / WIFI_EVENT_SCAN_DONE
    scanOwner,   \* the scan in progress in the Wi-Fi driver, and who started it
    pending,     \* the WIFI_EVENT_SCAN_DONE being dispatched by the event loop
    consumed,    \* handles still registered whose own scan was already handled
    stored,      \* NVS: partition -> key of namespace eh_appliance -> value
    last         \* the last operation: arguments, return value, calls made

vars == <<ndebug, alive, dev, released, listeners, scanOwner, pending,
          consumed, stored, last>>

----------------------------------------------------------------------------
(* Bounds of the model *)

MaxDevices == 2
MaxAps == 2

----------------------------------------------------------------------------
(* Values *)

Handles == 1..MaxDevices

\* the NULL pointer, as a string argument
NullStr == "<NULL>"
\* a key that is not in the partition
NoValue == "<absent>"
\* uninitialised memory that is no string of the program
Junk == "<junk>"

Values == {"", "SN-001", "SN-002"}

\* uuid_generate_v4, uuid_to_string: a fresh identifier per construction
BootId(h) == "uuid-" \o ToString(h)

\* const char *partition_name
NVS_DEFAULT_PART_NAME == "nvs"
PartitionLabels == {NullStr, "p1"}
PartitionNames == {NVS_DEFAULT_PART_NAME, "p1"}
Keys == {"serial_number", "part_number"}

hardware_info_interface == "io.edgehog.devicemanager.HardwareInfo"
wifi_scan_result_interface == "io.edgehog.devicemanager.WiFiScanResults"
system_status_status_interface == "io.edgehog.devicemanager.SystemStatus"
appliance_info_interface == "io.edgehog.devicemanager.ApplianceInfo"

Interfaces == {hardware_info_interface, wifi_scan_result_interface,
               system_status_status_interface, appliance_info_interface}

\* struct edgehog_device_t, with the state of its allocation
NoDevice == [state |-> "none", boot_id |-> "", astarte_device |-> NullStr,
             partition_name |-> NullStr]

----------------------------------------------------------------------------
(* The record of calls made to the platform *)

NoDoc == [channel |-> 0, essid |-> "", macAddress |-> <<>>, rssi |-> 0]

\* one call: the function, the interface or key it names, the path, the
\* string and document passed (or returned), and whether it succeeded
Call(fn, target, path, str, ok) ==
    [fn |-> fn, target |-> target, path |-> path, str |-> str, doc |-> NoDoc,
     ok |-> ok]

DocCall(fn, target, path, doc, ok) ==
    [fn |-> fn, target |-> target, path |-> path, str |-> "", doc |-> doc,
     ok |-> ok]

CallsOf(calls, fn) == SelectSeq(calls, LAMBDA c : c.fn = fn)

NoScan == [who |-> "none", dev |-> 0]

\* op: the operation; dev: the handle it was called with (or returned);
\* arg, key, before: the argument, NVS key and stored value before of a setter;
\* status, owner, records: the event, the scan it ends, the records delivered
NoOp == [op |-> "none", dev |-> 0, arg |-> "", key |-> "", before |-> "",
         ret |-> "", calls |-> <<>>, status |-> 0, owner |-> NoScan,
         records |-> <<>>]

NoEvent == [status |-> 0, owner |-> NoScan, queue |-> <<>>, apList |-> <<>>]

\* No WIFI_EVENT_SCAN_DONE is being dispatched.  The operations of the API
\* and the handlers run one at a time.
Quiet == pending.queue = <<>>

----------------------------------------------------------------------------
(* add_interfaces *)

\* add_interfaces with the failure of system-status returned like the others
add_interfaces_status_fatal(regOk) ==
    LET add(i) == Call("astarte_device_add_interface", i, "", "", regOk[i])
        hw == hardware_info_interface
        ss == system_status_status_interface
        wf == wifi_scan_result_interface
        ap == appliance_info_interface
    IN  IF ~regOk[hw]
        THEN [ret |-> "ESP_FAIL", calls |-> <<add(hw)>>]
        ELSE IF ~regOk[ss]
        THEN [ret |-> "ESP_FAIL", calls |-> <<add(hw), add(ss)>>]
        ELSE IF ~regOk[wf]
        THEN [ret |-> "ESP_FAIL", calls |-> <<add(hw), add(ss), add(wf)>>]
        ELSE [ret |-> IF regOk[ap] THEN "ESP_OK" ELSE "ESP_FAIL",
              calls |-> <<add(hw), add(ss), add(wf), add(ap)>>]

\* regOk[i]: astarte_device_add_interface succeeds for interface i.
\* The result: the return value and the calls made.
add_interfaces(regOk) ==
    LET add(i) == Call("astarte_device_add_interface", i, "", "", regOk[i])
        hw == hardware_info_interface
        ss == system_status_status_interface
        wf == wifi_scan_result_interface
        ap == appliance_info_interface
    IN  IF ~regOk[hw]
        THEN [ret |-> "ESP_FAIL", calls |-> <<add(hw)>>]
        ELSE IF ~regOk[wf]
        THEN [ret |-> "ESP_FAIL", calls |-> <<add(hw), add(ss), add(wf)>>]
        ELSE IF ~regOk[ap]
        THEN [ret |-> "ESP_FAIL",
              calls |-> <<add(hw), add(ss), add(wf), add(ap)>>]
        ELSE [ret |-> "ESP_OK",
              calls |-> <<add(hw), add(ss), add(wf), add(ap)>>]

----------------------------------------------------------------------------
(* publish_device_hardware_info, publish_system_status *)

\* Five property writes; their results are ignored by the code.  The chip
\* model and the memory size are read from the platform and not modelled.
publish_device_hardware_info ==
    LET set(path) == Call("astarte_device_set_string_property",
                          hardware_info_interface, path, "", TRUE)
    IN  <<set("/cpu/architecture"), set("/cpu/model"), set("/cpu/modelName"),
          set("/cpu/vendor"),
          Call("astarte_device_set_longinteger_property",
               hardware_info_interface, "/mem/totalBytes", "", TRUE)>>

\* One aggregate carrying the boot id; memory, task count and uptime are read
\* from the platform at the call and not modelled.
publish_system_status(boot_id) ==
    <<Call("astarte_device_stream_aggregate", system_status_status_interface,
           "/systemStatus", boot_id, TRUE)>>

----------------------------------------------------------------------------
(* scan_wifi_ap *)

\* scan_wifi_ap without the return after a failed registration
scan_wifi_ap_no_return(d, evOk, startOk, ls, owner) ==
    LET reg == Call("esp_event_handler_instance_register",
                    "WIFI_EVENT_SCAN_DONE", "", "", evOk)
        started == startOk /\ owner.who = "none"
        start == Call("esp_wifi_scan_start", "", "", "", started)
    IN  [calls |-> <<reg, start>>,
         listeners |-> IF evOk THEN Append(ls, d) ELSE ls,
         scanOwner |-> IF started THEN [who |-> "edgehog", dev |-> d]
                       ELSE owner]

\* scan_wifi_ap requesting the scan before it registers the handler
scan_wifi_ap_request_first(d, evOk, startOk, ls, owner) ==
    LET reg == Call("esp_event_handler_instance_register",
                    "WIFI_EVENT_SCAN_DONE", "", "", evOk)
        started == startOk /\ owner.who = "none"
        start == Call("esp_wifi_scan_start", "", "", "", started)
    IN  [calls |-> <<start, reg>>,
         listeners |-> IF evOk THEN Append(ls, d) ELSE ls,
         scanOwner |-> IF started THEN [who |-> "edgehog", dev |-> d]
                       ELSE owner]

\* evOk: esp_event_handler_instance_register succeeds; startOk: the driver
\* accepts the scan request (it holds one scan at a time).  The result of
\* esp_wifi_scan_start is ignored by the code.
scan_wifi_ap(d, evOk, startOk, ls, owner) ==
    LET reg == Call("esp_event_handler_instance_register",
                    "WIFI_EVENT_SCAN_DONE", "", "", evOk)
        started == startOk /\ owner.who = "none"
        start == Call("esp_wifi_scan_start", "", "", "", started)
    IN  IF ~evOk
        THEN [calls |-> <<reg>>, listeners |-> ls, scanOwner |-> owner]
        ELSE [calls |-> <<reg, start>>, listeners |-> Append(ls, d),
              scanOwner |-> IF started THEN [who |-> "edgehog", dev |-> d]
                            ELSE owner]

----------------------------------------------------------------------------
(* edgehog_device_new *)

\* ESP_ERROR_CHECK(x): aborts on an error, unless the build defines NDEBUG,
\* where the result is ignored.
ESP_ERROR_CHECK_aborts(ret) == ret # "ESP_OK" /\ ~ndebug

FreeHandle == CHOOSE h \in Handles :
                  /\ dev[h].state = "none"
                  /\ \A g \in Handles : g < h => dev[g].state # "none"

\* The checks of the argument: a NULL config, or a config whose
\* astarte_device is NULL, is refused.
config_rejected_no_astarte_check(config) == config = "none"

config_rejected(config) == config = "none" \/ config = "no_astarte"

\* config: "none" (NULL config), "no_astarte" (astarte_device NULL), "ok"
edgehog_device_new(config, label, callocOk, regOk, evOk, startOk) ==
    /\ alive
    /\ Quiet
    /\ \E h \in Handles : dev[h].state = "none"
    /\ IF config_rejected(config) \/ ~callocOk
       THEN /\ last' = [NoOp EXCEPT !.op = "new", !.arg = config,
                                    !.ret = "NULL"]
            /\ UNCHANGED <<ndebug, alive, dev, released, listeners,
                           scanOwner, pending, consumed, stored>>
       ELSE LET h == FreeHandle
                boot_id == BootId(h)
                obj == [state |-> "live", boot_id |-> boot_id,
                        astarte_device |-> IF config = "ok" THEN "astarte"
                                           ELSE NullStr,
                        partition_name |-> IF label # NullStr THEN label
                                           ELSE NVS_DEFAULT_PART_NAME]
                ai == add_interfaces(regOk)
                sc == scan_wifi_ap(h, evOk, startOk, listeners, scanOwner)
            IN  /\ IF ESP_ERROR_CHECK_aborts(ai.ret)
                   THEN /\ alive' = FALSE
                        /\ dev' = [dev EXCEPT ![h] = obj]
                        /\ last' = [NoOp EXCEPT !.op = "new", !.arg = config,
                                                !.dev = h, !.ret = "abort",
                                                !.calls = ai.calls]
                        /\ UNCHANGED <<listeners, scanOwner>>
                   ELSE /\ alive' = alive
                        /\ dev' = [dev EXCEPT ![h] = obj]
                        /\ listeners' = sc.listeners
                        /\ scanOwner' = sc.scanOwner
                        /\ last' = [NoOp EXCEPT
                                      !.op = "new", !.arg = config, !.dev = h,
                                      !.ret = "handle",
                                      !.calls = ai.calls
                                                \o publish_device_hardware_info
                                                \o publish_system_status(boot_id)
                                                \o sc.calls]
                /\ UNCHANGED <<ndebug, released, pending, consumed, stored>>

\* The registrations that fail, of those add_interfaces makes: it makes none
\* after the first failure of a mandatory one.
RegistrationFailures ==
    { S \in SUBSET Interfaces :
        /\ hardware_info_interface \in S => S = {hardware_info_interface}
        /\ wifi_scan_result_interface \in S
              => appliance_info_interface \notin S }

\* The inputs: the config, the partition label, and which platform calls
\* fail.  Inputs that are not read on the path taken are not enumerated.
NewWith(labels) ==
    \E config \in {"ok", "none", "no_astarte"} :
    \E callocFails \in (IF config = "ok" THEN BOOLEAN ELSE {FALSE}) :
    \E label \in (IF config = "ok" /\ ~callocFails THEN labels
                  ELSE {NullStr}),
       regFails \in (IF config = "ok" /\ ~callocFails
                     THEN RegistrationFailures ELSE {{}}) :
    \E evFails \in (IF /\ config = "ok" /\ ~callocFails
                       /\ (ndebug \/ regFails \subseteq
                                        {system_status_status_interface})
                    THEN BOOLEAN ELSE {FALSE}) :
    \E startFails \in (IF /\ config = "ok" /\ ~callocFails /\ ~evFails
                          /\ (ndebug \/ regFails \subseteq
                                           {system_status_status_interface})
                       THEN BOOLEAN ELSE {FALSE}) :
        edgehog_device_new(config, label, ~callocFails,
                           [i \in Interfaces |-> i \notin regFails],
                           ~evFails, ~startFails)

\* The partition name is read by the property setters alone: the devices of
\* the scan controller's specification take the default partition.
New == NewWith({NullStr})

\* The construction of the one device of the property store's specification,
\* on either partition; the platform calls of the construction succeed (the
\* setters read the partition name alone of what the construction leaves).
NewOne ==
    /\ \A h \in Handles : dev[h].state = "none"
    /\ \E label \in PartitionLabels :
          edgehog_device_new("ok", label, TRUE, [i \in Interfaces |-> TRUE],
                             TRUE, TRUE)

----------------------------------------------------------------------------
(* Access point records and their telemetry document *)

\* wifi_ap_record_t: primary channel, ssid, bssid (six bytes), rssi.  The
\* access points in range: the first two share their ssid, every bssid
\* differs from the others, the signal weakens with the index.
ApRecord(i) ==
    [primary |-> 1 + 5 * ((i - 1) % 3),
     ssid |-> IF i <= 2 THEN "home" ELSE "guest",
     bssid |-> <<0, 17, 34, 170, 187, 203 + i>>,
     rssi |-> -9 - 31 * i]

\* The list the driver holds after a scan: the access points it found, the
\* strongest signal first.
RECURSIVE ApList(_)
ApList(S) ==
    IF S = {} THEN <<>>
    ELSE LET i == CHOOSE x \in S : \A y \in S : x <= y
         IN  <<ApRecord(i)>> \o ApList(S \ {i})

ScanResults == {ApList(S) : S \in SUBSET (1..MaxAps)}

HexDigits == <<"0", "1", "2", "3", "4", "5", "6", "7", "8", "9",
               "a", "b", "c", "d", "e", "f">>

\* "%x" of one byte: no leading zero
Hex2_unpadded(b) ==
    IF b < 16 THEN <<HexDigits[b + 1]>>
    ELSE <<HexDigits[(b \div 16) + 1], HexDigits[(b % 16) + 1]>>

\* "%02x" of one byte
Hex2(b) == <<HexDigits[(b \div 16) + 1], HexDigits[(b % 16) + 1]>>

\* snprintf(mac, 18, "%02x:%02x:%02x:%02x:%02x:%02x", bssid[0..5])
FormatMac(bssid) ==
    Hex2(bssid[1]) \o <<":">> \o Hex2(bssid[2]) \o <<":">> \o
    Hex2(bssid[3]) \o <<":">> \o Hex2(bssid[4]) \o <<":">> \o
    Hex2(bssid[5]) \o <<":">> \o Hex2(bssid[6])

\* the BSON document of one access point
ApDocument(ap) ==
    [channel |-> ap.primary, essid |-> ap.ssid,
     macAddress |-> FormatMac(ap.bssid), rssi |-> ap.rssi]

----------------------------------------------------------------------------
(* publish_wifi_ap *)

\* publish_wifi_ap leaving the loop at the first publish the backend refuses
publish_wifi_ap_stop_on_failure(res, failAt, apList) ==
    LET num == Call("esp_wifi_scan_get_ap_num", "", "", "",
                    res # "count_fail")
        alloc == Call("malloc", "ap_info", "", "", res # "malloc_fail")
        recs == Call("esp_wifi_scan_get_ap_records", "", "", "",
                     res # "records_fail")
        free == Call("free", "ap_info", "", "", TRUE)
        pub(i) == DocCall("astarte_device_stream_aggregate",
                          wifi_scan_result_interface, "/ap",
                          ApDocument(apList[i]), i # failAt)
        n == IF failAt = 0 THEN Len(apList) ELSE failAt
    IN  IF res = "count_fail"
        THEN [calls |-> <<num>>, got |-> <<>>, apList |-> apList]
        ELSE IF res = "malloc_fail"
        THEN [calls |-> <<num, alloc>>, got |-> <<>>, apList |-> apList]
        ELSE IF res = "records_fail"
        THEN [calls |-> <<num, alloc, recs, free>>, got |-> <<>>,
              apList |-> apList]
        ELSE [calls |-> <<num, alloc, recs>>
                        \o [i \in 1..n |-> pub(i)] \o <<free>>,
              got |-> apList, apList |-> <<>>]

\* publish_wifi_ap returning without free(ap_info) when the records cannot be
\* retrieved
publish_wifi_ap_leaks_buffer(res, failAt, apList) ==
    LET num == Call("esp_wifi_scan_get_ap_num", "", "", "",
                    res # "count_fail")
        alloc == Call("malloc", "ap_info", "", "", res # "malloc_fail")
        recs == Call("esp_wifi_scan_get_ap_records", "", "", "",
                     res # "records_fail")
        free == Call("free", "ap_info", "", "", TRUE)
        pub(i) == DocCall("astarte_device_stream_aggregate",
                          wifi_scan_result_interface, "/ap",
                          ApDocument(apList[i]), i # failAt)
    IN  IF res = "count_fail"
        THEN [calls |-> <<num>>, got |-> <<>>, apList |-> apList]
        ELSE IF res = "malloc_fail"
        THEN [calls |-> <<num, alloc>>, got |-> <<>>, apList |-> apList]
        ELSE IF res = "records_fail"
        THEN [calls |-> <<num, alloc, recs>>, got |-> <<>>,
              apList |-> apList]
        ELSE [calls |-> <<num, alloc, recs>>
                        \o [i \in 1..Len(apList) |-> pub(i)] \o <<free>>,
              got |-> apList, apList |-> <<>>]

\* res: how retrieval goes ("count_fail", "malloc_fail", "records_fail",
\* "ok"); failAt: the record whose publish the backend refuses (0: none; the
\* code ignores the result).  apList is the result list the driver holds; a
\* successful esp_wifi_scan_get_ap_records hands it over and frees it.
publish_wifi_ap(res, failAt, apList) ==
    LET num == Call("esp_wifi_scan_get_ap_num", "", "", "",
                    res # "count_fail")
        alloc == Call("malloc", "ap_info", "", "", res # "malloc_fail")
        recs == Call("esp_wifi_scan_get_ap_records", "", "", "",
                     res # "records_fail")
        free == Call("free", "ap_info", "", "", TRUE)
        pub(i) == DocCall("astarte_device_stream_aggregate",
                          wifi_scan_result_interface, "/ap",
                          ApDocument(apList[i]), i # failAt)
    IN  IF res = "count_fail"
        THEN [calls |-> <<num>>, got |-> <<>>, apList |-> apList]
        ELSE IF res = "malloc_fail"
        THEN [calls |-> <<num, alloc>>, got |-> <<>>, apList |-> apList]
        ELSE IF res = "records_fail"
        THEN [calls |-> <<num, alloc, recs, free>>, got |-> <<>>,
              apList |-> apList]
        ELSE [calls |-> <<num, alloc, recs>>
                        \o [i \in 1..Len(apList) |-> pub(i)] \o <<free>>,
              got |-> apList, apList |-> <<>>]

----------------------------------------------------------------------------
(* edgehog_event_handler *)

RemoveAt(s, i) == [j \in 1..(Len(s) - 1) |-> IF j < i THEN s[j] ELSE s[j + 1]]

Member(s, x) == \E i \in 1..Len(s) : s[i] = x

\* the handler with the unregistration made before the results are processed
edgehog_event_handler_unregister_first(d, status, res, failAt, unreg, apList, ls) ==
    IF d = 0 \/ status # 0
    THEN [calls |-> <<>>, got |-> <<>>, apList |-> apList, listeners |-> ls]
    ELSE LET pw == publish_wifi_ap(res, failAt, apList)
             un == Call("esp_event_handler_instance_unregister",
                        "WIFI_EVENT_SCAN_DONE", "", "", unreg # 0)
         IN  [calls |-> <<un>> \o pw.calls, got |-> pw.got,
              apList |-> pw.apList,
              listeners |-> IF unreg # 0 THEN RemoveAt(ls, unreg) ELSE ls]

\* the handler processing the results whatever the status of the scan
edgehog_event_handler_ignores_status(d, status, res, failAt, unreg, apList, ls) ==
    IF d = 0
    THEN [calls |-> <<>>, got |-> <<>>, apList |-> apList, listeners |-> ls]
    ELSE LET pw == publish_wifi_ap(res, failAt, apList)
             un == Call("esp_event_handler_instance_unregister",
                        "WIFI_EVENT_SCAN_DONE", "", "", unreg # 0)
         IN  [calls |-> pw.calls \o <<un>>, got |-> pw.got,
              apList |-> pw.apList,
              listeners |-> IF unreg # 0 THEN RemoveAt(ls, unreg) ELSE ls]

\* The handler run for one registration (arg = d, event WIFI_EVENT_SCAN_DONE
\* with its data).  unreg: the registration that
\* esp_event_handler_instance_unregister removes (0: it finds none).  The
\* call names the event and the handler function, not the registration: the
\* instance was not kept at registration.
edgehog_event_handler(d, status, res, failAt, unreg, apList, ls) ==
    IF d = 0
    THEN [calls |-> <<>>, got |-> <<>>, apList |-> apList, listeners |-> ls]
    ELSE IF status = 0
    THEN LET pw == publish_wifi_ap(res, failAt, apList)
             un == Call("esp_event_handler_instance_unregister",
                        "WIFI_EVENT_SCAN_DONE", "", "", unreg # 0)
         IN  [calls |-> pw.calls \o <<un>>, got |-> pw.got,
              apList |-> pw.apList,
              listeners |-> IF unreg # 0 THEN RemoveAt(ls, unreg) ELSE ls]
    ELSE [calls |-> <<>>, got |-> <<>>, apList |-> apList, listeners |-> ls]

\* The Wi-Fi driver finishes the scan in progress and posts
\* WIFI_EVENT_SCAN_DONE with its status (0: success, 1: failure); the event
\* loop will run the handlers registered at that time, in registration order.
ScanDone ==
    /\ alive
    /\ Quiet
    /\ scanOwner.who # "none"
    /\ LET post(status, records) ==
               /\ pending' = [status |-> status, owner |-> scanOwner,
                              queue |-> listeners,
                              apList |-> IF listeners = <<>> THEN <<>>
                                         ELSE records]
               /\ last' = [NoOp EXCEPT !.op = "scan_done",
                                       !.status = status,
                                       !.owner = scanOwner,
                                       !.records = records]
       IN  \/ post(1, <<>>)
           \/ \E records \in ScanResults : post(0, records)
    /\ scanOwner' = NoScan
    /\ UNCHANGED <<ndebug, alive, dev, released, listeners, consumed, stored>>

\* The event loop runs the next handler of the event being dispatched.  A
\* registration removed meanwhile is skipped.  The handler reads the device
\* in the loop of publish_wifi_ap alone (its astarte_device, per record): when
\* the device was freed and there are records, the handler reads freed
\* memory, and it runs as on a live device, or crashes.
HandlerRun ==
    /\ alive
    /\ ~Quiet
    /\ LET d == Head(pending.queue)
           status == pending.status
       IN \E res \in (IF status = 0
                      THEN {"count_fail", "malloc_fail", "records_fail", "ok"}
                      ELSE {"ok"})
                     \cup (IF /\ dev[d].state = "freed" /\ status = 0
                              /\ pending.apList # <<>>
                           THEN {"crash"} ELSE {}),
             found \in (IF status = 0 THEN 0..Len(listeners) ELSE {0}) :
          \E failAt \in (IF status = 0 /\ res = "ok"
                         THEN 0..Len(pending.apList) ELSE {0}) :
          IF res = "crash"
          THEN /\ alive' = FALSE
               /\ last' = [NoOp EXCEPT !.op = "handler", !.dev = d,
                                       !.status = status, !.ret = "crash",
                                       !.owner = pending.owner]
               /\ UNCHANGED <<listeners, pending, consumed>>
          ELSE LET unreg == IF status = 0 THEN Len(listeners) - found ELSE 0
                   h == edgehog_event_handler(d, status, res, failAt, unreg,
                                              pending.apList, listeners)
                   rest == SelectSeq(Tail(pending.queue),
                                     LAMBDA x : Member(h.listeners, x))
               IN  /\ alive' = alive
                   /\ listeners' = h.listeners
                   /\ pending' = IF rest = <<>> THEN NoEvent
                                 ELSE [pending EXCEPT !.queue = rest,
                                                      !.apList = h.apList]
                   /\ consumed' = {x \in consumed \cup
                                          (IF pending.owner =
                                                [who |-> "edgehog", dev |-> d]
                                           THEN {d} ELSE {}) :
                                      Member(h.listeners, x)}
                   /\ last' = [NoOp EXCEPT !.op = "handler", !.dev = d,
                                           !.status = status, !.ret = "void",
                                           !.owner = pending.owner,
                                           !.records = h.got,
                                           !.calls = h.calls]
    /\ UNCHANGED <<ndebug, dev, released, scanOwner, stored>>

\* Code outside the library starts a scan of its own.
ThirdPartyScan ==
    /\ alive
    /\ Quiet
    /\ scanOwner.who = "none"
    /\ scanOwner' = [who |-> "other", dev |-> 0]
    /\ last' = [NoOp EXCEPT !.op = "third_party_scan"]
    /\ UNCHANGED <<ndebug, alive, dev, released, listeners, pending,
                   consumed, stored>>

----------------------------------------------------------------------------
(* edgehog_nvs_get_string, edgehog_nvs_set_str *)

\* openOk: nvs_open_from_partition (read only) succeeds; mallocOk: the buffer
\* is allocated.  When the first nvs_get_str fails (the key is absent, or the
\* handle is invalid) it does not write required_size, which the code then
\* reads uninitialised.  uninit is what comes of it: NullStr when the size is
\* read as 0, else the bytes of the buffer allocated with that size, which
\* the second nvs_get_str, failing as the first, does not write.
edgehog_nvs_get_string(partition_name, key, openOk, mallocOk, uninit) ==
    LET open == Call("nvs_open_from_partition", partition_name,
                     "NVS_READONLY", "", openOk)
        found == openOk /\ stored[partition_name][key] # NoValue
        size == Call("nvs_get_str", key, "size", "", found)
        alloc == Call("malloc", "out_value", "", "", mallocOk)
        read == Call("nvs_get_str", key, "value",
                     IF found THEN stored[partition_name][key] ELSE uninit,
                     found)
        close == Call("nvs_close", "", "", "", TRUE)
    IN  IF ~found /\ uninit = NullStr
        THEN [value |-> NullStr, calls |-> <<open, size, close>>]
        ELSE IF ~mallocOk
        THEN [value |-> NullStr, calls |-> <<open, size, alloc, close>>]
        ELSE [value |-> IF found THEN stored[partition_name][key]
                        ELSE uninit,
              calls |-> <<open, size, alloc, read, close>>]

\* openOk: nvs_open_from_partition (read write) succeeds; setOk: nvs_set_str
\* succeeds.  The result of nvs_commit is ignored by the code.
edgehog_nvs_set_str(partition_name, key, value, openOk, setOk) ==
    LET open == Call("nvs_open_from_partition", partition_name,
                     "NVS_READWRITE", "", openOk)
        set == Call("nvs_set_str", key, "", value, setOk)
        commit == Call("nvs_commit", "", "", "", TRUE)
        close == Call("nvs_close", "", "", "", TRUE)
    IN  IF ~openOk
        THEN [ret |-> "NVS_ERR", calls |-> <<open>>, written |-> FALSE]
        ELSE IF ~setOk
        THEN [ret |-> "NVS_ERR", calls |-> <<open, set, close>>,
              written |-> FALSE]
        ELSE [ret |-> "ESP_OK", calls |-> <<open, set, commit, close>>,
              written |-> TRUE]

----------------------------------------------------------------------------
(* edgehog_device_set_appliance_serial_number,                             *)
(* edgehog_device_set_appliance_part_number                                *)

\* The setters writing the value to the partition before they publish it,
\* whatever the publish returns
set_appliance_property_write_first(op, d, key, path, value, in) ==
    LET part == dev[d].partition_name
        pub == Call("astarte_device_set_string_property",
                    appliance_info_interface, path, value, in.pubOk)
        put == edgehog_nvs_set_str(part, key, value, in.openRw, in.setOk)
    IN  /\ last' = [NoOp EXCEPT !.op = op, !.dev = d, !.arg = value,
                                !.key = key, !.before = stored[part][key],
                                !.ret = IF in.pubOk THEN put.ret
                                        ELSE "ASTARTE_ERR",
                                !.calls = put.calls \o <<pub>>]
        /\ stored' = IF value # NullStr /\ part # NullStr /\ put.written
                     THEN [stored EXCEPT ![part][key] = value]
                     ELSE stored

\* The body the two setters share: key is the NVS key, path the property
\* path, value the argument (NullStr: a NULL pointer).  in: the outcomes of
\* the platform calls.
set_appliance_property(op, d, key, path, value, in) ==
    LET part == dev[d].partition_name
        get == edgehog_nvs_get_string(part, key, in.openRo, in.mallocOk,
                                      in.uninit)
        previous_value == get.value
        cmp == IF previous_value # NullStr
               THEN <<Call("strcmp", key, "", previous_value,
                           previous_value = value)>>
               ELSE <<>>
        read == get.calls \o cmp
        pub == Call("astarte_device_set_string_property",
                    appliance_info_interface, path, value, in.pubOk)
        put == edgehog_nvs_set_str(part, key, value, in.openRw, in.setOk)
        done(ret, calls) == [NoOp EXCEPT !.op = op, !.dev = d, !.arg = value,
                                         !.key = key,
                                         !.before = stored[part][key],
                                         !.ret = ret, !.calls = calls]
    IN  IF value = NullStr
        THEN /\ last' = done("ESP_FAIL", <<>>)
             /\ stored' = stored
        ELSE IF previous_value # NullStr /\ previous_value = value
        THEN /\ last' = done("ESP_OK", read)
             /\ stored' = stored
        ELSE IF ~in.pubOk
        THEN /\ last' = done("ASTARTE_ERR", read \o <<pub>>)
             /\ stored' = stored
        ELSE IF part # NullStr
        THEN /\ last' = done(put.ret, read \o <<pub>> \o put.calls)
             /\ stored' = IF put.written
                          THEN [stored EXCEPT ![part][key] = value]
                          ELSE stored
        ELSE /\ last' = done("ESP_OK", read \o <<pub>>)
             /\ stored' = stored

\* The outcomes of the platform calls of one setter call; those that are not
\* reached are not enumerated.  The uninitialised buffer is read by strcmp
\* alone: it compares equal to the value, or it does not (Junk).
SetterInputs(d, key, value) ==
    IF value = NullStr
    THEN {[openRo |-> TRUE, mallocOk |-> TRUE, uninit |-> NullStr,
           pubOk |-> TRUE, openRw |-> TRUE, setOk |-> TRUE]}
    ELSE LET present == stored[dev[d].partition_name][key] # NoValue
         IN  { in \in [openRo : BOOLEAN, mallocOk : BOOLEAN,
                       uninit : {NullStr, Junk, value}, pubOk : BOOLEAN,
                       openRw : BOOLEAN, setOk : BOOLEAN] :
                 /\ (present /\ in.openRo) => in.uninit = NullStr
                 /\ (~(present /\ in.openRo) /\ in.uninit = NullStr)
                    => in.mallocOk
                 /\ (/\ in.mallocOk
                     /\ IF present /\ in.openRo
                        THEN stored[dev[d].partition_name][key] = value
                        ELSE in.uninit = value)
                    => (in.pubOk /\ in.openRw /\ in.setOk)
                 /\ ~in.pubOk => (in.openRw /\ in.setOk)
                 /\ ~in.openRw => in.setOk }

edgehog_device_set_appliance_serial_number(d, serial_num, in) ==
    /\ alive
    /\ Quiet
    /\ dev[d].state = "live"
    /\ set_appliance_property("set_serial_number", d, "serial_number",
                              "/serialNumber", serial_num, in)
    /\ UNCHANGED <<ndebug, alive, dev, released, listeners, scanOwner,
                   pending, consumed>>

edgehog_device_set_appliance_part_number(d, part_num, in) ==
    /\ alive
    /\ Quiet
    /\ dev[d].state = "live"
    /\ set_appliance_property("set_part_number", d, "part_number",
                              "/partNumber", part_num, in)
    /\ UNCHANGED <<ndebug, alive, dev, released, listeners, scanOwner,
                   pending, consumed>>

SetSerialNumber ==
    \E d \in Handles, v \in Values \cup {NullStr} :
        /\ dev[d].state = "live"
        /\ \E in \in SetterInputs(d, "serial_number", v) :
              edgehog_device_set_appliance_serial_number(d, v, in)

SetPartNumber ==
    \E d \in Handles, v \in Values \cup {NullStr} :
        /\ dev[d].state = "live"
        /\ \E in \in SetterInputs(d, "part_number", v) :
              edgehog_device_set_appliance_part_number(d, v, in)

----------------------------------------------------------------------------
(* edgehog_device_destroy *)

\* edgehog_device_destroy releasing the connection without the check of the
\* handle
edgehog_device_destroy_unchecked(d) ==
    /\ alive
    /\ Quiet
    /\ d # 0 => dev[d].state = "live"
    /\ released' = released + 1
    /\ dev' = IF d = 0 THEN dev ELSE [dev EXCEPT ![d].state = "freed"]
    /\ last' = [NoOp EXCEPT
                  !.op = "destroy", !.dev = d,
                  !.calls = <<Call("astarte_device_destroy",
                                   IF d = 0 THEN NullStr
                                   ELSE dev[d].astarte_device, "", "",
                                   TRUE)>>]
    /\ UNCHANGED <<ndebug, alive, listeners, scanOwner, pending, consumed,
                   stored>>

\* d = 0 is the NULL handle
edgehog_device_destroy(d) ==
    /\ alive
    /\ Quiet
    /\ IF d = 0
       THEN /\ last' = [NoOp EXCEPT !.op = "destroy"]
            /\ UNCHANGED <<dev, released>>
       ELSE /\ dev[d].state = "live"
            /\ released' = released + 1
            /\ dev' = [dev EXCEPT ![d].state = "freed"]
            /\ last' = [NoOp EXCEPT
                          !.op = "destroy", !.dev = d,
                          !.calls = <<Call("astarte_device_destroy",
                                           dev[d].astarte_device, "", "",
                                           TRUE)>>]
    /\ UNCHANGED <<ndebug, alive, listeners, scanOwner, pending, consumed,
                   stored>>

Destroy == \E d \in {0} \cup Handles : edgehog_device_destroy(d)

----------------------------------------------------------------------------

Init ==
    /\ (ndebug = FALSE \/ ndebug = TRUE)
    /\ alive = TRUE
    /\ dev = [h \in Handles |-> NoDevice]
    /\ released = 0
    /\ listeners = <<>>
    /\ scanOwner = NoScan
    /\ pending = NoEvent
    /\ consumed = {}
    /\ stored = [p \in PartitionNames |-> [k \in Keys |-> NoValue]]
    /\ last = NoOp

\* The device lifecycle and the scan controller.
Next == New \/ Destroy \/ ScanDone \/ HandlerRun \/ ThirdPartyScan

Spec == Init /\ [][Next]_vars

\* The property store of one device.  It shares no state with the scan
\* controller: the setters read and write the device's partition alone.
NextStore == NewOne \/ SetSerialNumber \/ SetPartNumber

SpecStore == Init /\ [][NextStore]_vars

----------------------------------------------------------------------------
(* Reading the record of the last operation *)

IsSetter(r) == r.op \in {"set_serial_number", "set_part_number"}

\* the publishes of the appliance property and the partition writes of a
\* setter call
Publishes(r) == CallsOf(r.calls, "astarte_device_set_string_property")
Writes(r) == CallsOf(r.calls, "nvs_set_str")

PublishFailed(r) == \E i \in 1..Len(r.calls) :
    r.calls[i].fn = "astarte_device_set_string_property" /\ ~r.calls[i].ok

\* the partition could be opened and memory allocated
ReadWorked(r) == \A i \in 1..Len(r.calls) :
    r.calls[i].fn \in {"nvs_open_from_partition", "malloc"} => r.calls[i].ok

\* no platform call of the setter call failed (a key that is absent is no
\* failure)
AllWorked(r) == \A i \in 1..Len(r.calls) :
    r.calls[i].fn \in {"nvs_open_from_partition", "malloc", "nvs_set_str",
                       "astarte_device_set_string_property"}
        => r.calls[i].ok

\* the same setter called again on the same device with the same value,
\* which is neither absent nor empty
SameCallAgain(r, q) ==
    /\ IsSetter(r) /\ q.op = r.op /\ q.dev = r.dev /\ q.arg = r.arg
    /\ r.arg \notin {NullStr, ""}

IsNew(r) == r.op = "new"
IsHandlerRun(r) == r.op = "handler" /\ r.ret = "void"

Position(calls, fn) == {i \in 1..Len(calls) : calls[i].fn = fn}

ApPublishes(r) == SelectSeq(r.calls, LAMBDA c :
    c.fn = "astarte_device_stream_aggregate" /\ c.path = "/ap")

MandatoryInterfaces == {hardware_info_interface, wifi_scan_result_interface,
                        appliance_info_interface}

\* an astarte_device_add_interface call of the operation failed for one of S
RegistrationFailed(r, S) == \E i \in 1..Len(r.calls) :
    /\ r.calls[i].fn = "astarte_device_add_interface"
    /\ r.calls[i].target \in S
    /\ ~r.calls[i].ok

Registered(r, iface) == \E i \in 1..Len(r.calls) :
    /\ r.calls[i].fn = "astarte_device_add_interface"
    /\ r.calls[i].target = iface
    /\ r.calls[i].ok

TelemetryFns == {"astarte_device_set_string_property",
                 "astarte_device_set_longinteger_property",
                 "astarte_device_stream_aggregate"}

----------------------------------------------------------------------------
(* C1 *)

\* C1: Dedup idempotence.  When a setter is called with a value v that
\* differs from the stored one, and called again at once with the same v, and
\* no platform call fails, the two calls make exactly one publish and exactly
\* one partition write in total, and the second call returns ESP_OK without a
\* publish or a write.
C1_DedupIdempotence ==
    [][ (SameCallAgain(last, last') /\ last.before # last.arg
         /\ AllWorked(last) /\ AllWorked(last'))
        => /\ Len(Publishes(last)) + Len(Publishes(last')) = 1
           /\ Len(Writes(last)) + Len(Writes(last')) = 1
           /\ last'.ret = "ESP_OK"
           /\ Publishes(last') = <<>>
           /\ Writes(last') = <<>> ]_vars

----------------------------------------------------------------------------
(* C2 *)

\* C2: Publish-before-persist.  A setter call whose publish fails attempts no
\* partition write, leaves the stored values as they were and returns an
\* error; and the same call made again at once (the partition readable in
\* both calls) attempts the publish again.
C2_PublishBeforePersist ==
    [][ /\ (IsSetter(last') /\ PublishFailed(last'))
           => /\ Writes(last') = <<>>
              /\ stored' = stored
              /\ last'.ret # "ESP_OK"
        /\ (SameCallAgain(last, last') /\ PublishFailed(last)
            /\ ReadWorked(last) /\ ReadWorked(last'))
           => Publishes(last') # <<>> ]_vars

----------------------------------------------------------------------------
(* C3 *)

\* the handler of device r.dev has run for the completion of the scan that
\* this device requested
OwnCycleCompleted(r) ==
    IsHandlerRun(r) /\ r.owner = [who |-> "edgehog", dev |-> r.dev]

\* C3: Scan listener hygiene.  After the handler of a device has run for the
\* completion of the scan the device requested, with status 0 or not, the
\* device has no listener registered on WIFI_EVENT_SCAN_DONE.
C3_ScanListenerHygiene ==
    OwnCycleCompleted(last) => ~Member(listeners, last.dev)

----------------------------------------------------------------------------
(* C4 *)

ProcessingFns == {"esp_wifi_scan_get_ap_num", "malloc",
                  "esp_wifi_scan_get_ap_records",
                  "astarte_device_stream_aggregate", "free"}

Unregisters(r) == Position(r.calls, "esp_event_handler_instance_unregister")

Processing(r) == {i \in 1..Len(r.calls) : r.calls[i].fn \in ProcessingFns}

\* C4 as stated: on a successful completion the handler unregisters its
\* listener before it starts to process the results.
C4_UnsubscribeBeforeProcessing ==
    (IsHandlerRun(last) /\ last.status = 0)
    => /\ Unregisters(last) # {}
       /\ \A u \in Unregisters(last), i \in Processing(last) : u < i

\* C4, amended: on a successful completion the handler first processes the
\* results (the count is asked for first), then makes its one unregister
\* call, which is the last call it makes; when the handler has returned it is
\* no more in the dispatch of the event.
C4_ProcessingBeforeUnsubscribe ==
    (IsHandlerRun(last) /\ last.status = 0)
    => /\ Cardinality(Unregisters(last)) = 1
       /\ Unregisters(last) = {Len(last.calls)}
       /\ last.calls[1].fn = "esp_wifi_scan_get_ap_num"
       /\ \A u \in Unregisters(last), i \in Processing(last) : i < u
       /\ ~Member(pending.queue, last.dev)

C4_Witness ==
    /\ IsHandlerRun(last) /\ last.status = 0
    /\ Len(ApPublishes(last)) >= 1
    /\ last.calls[Len(last.calls)].fn = "esp_event_handler_instance_unregister"
    /\ last.calls[Len(last.calls)].ok

----------------------------------------------------------------------------
(* C5 *)

\* C5: No capture of third-party scans.  A device whose handler has already
\* run for the completion of its own scan publishes no access point when a
\* scan started by other code completes.
C5_NoThirdPartyCapture ==
    [][ (IsHandlerRun(last') /\ last'.owner.who = "other"
         /\ last'.dev \in consumed)
        => ApPublishes(last') = <<>> ]_vars

----------------------------------------------------------------------------
(* C6 *)

\* C6: Mandatory schema registration is fatal.  When the registration of
\* hardware-info, wifi-scan-result or appliance-info fails,
\* edgehog_device_new returns NULL to its caller, which goes on running, and
\* it has published nothing and requested no scan.
C6_MandatoryRegistrationFatal ==
    (IsNew(last) /\ RegistrationFailed(last, MandatoryInterfaces))
    => /\ last.ret = "NULL"
       /\ alive
       /\ \A i \in 1..Len(last.calls) :
              last.calls[i].fn \notin TelemetryFns \cup {"esp_wifi_scan_start"}

----------------------------------------------------------------------------
(* C7 *)

OnlySystemStatusFailed(r) ==
    /\ IsNew(r)
    /\ RegistrationFailed(r, {system_status_status_interface})
    /\ ~RegistrationFailed(r, MandatoryInterfaces)

\* C7: Optional schema registration is non-fatal.  When the registration of
\* system-status alone fails, wifi-scan-result and appliance-info are still
\* registered, edgehog_device_new returns a live device, the process runs on
\* and the hardware-info properties have been published.
C7_OptionalRegistrationNonFatal ==
    OnlySystemStatusFailed(last)
    => /\ last.ret = "handle"
       /\ alive
       /\ last.dev \in Handles /\ dev[last.dev].state = "live"
       /\ Registered(last, hardware_info_interface)
       /\ Registered(last, wifi_scan_result_interface)
       /\ Registered(last, appliance_info_interface)
       /\ Len(SelectSeq(last.calls, LAMBDA c :
                c.fn \in TelemetryFns
                /\ c.target = hardware_info_interface)) = 5

C7_Witness == OnlySystemStatusFailed(last) /\ last.ret = "handle"

----------------------------------------------------------------------------
(* C8 *)

FnsOf(calls) == [i \in 1..Len(calls) |-> calls[i].fn]
TargetsOf(calls) == [i \in 1..Len(calls) |-> calls[i].target]

Adds(n) == [i \in 1..n |-> "astarte_device_add_interface"]

\* the calls that follow the registrations, up to the scan request
TelemetrySequence ==
    <<"astarte_device_set_string_property",
      "astarte_device_set_string_property",
      "astarte_device_set_string_property",
      "astarte_device_set_string_property",
      "astarte_device_set_longinteger_property",
      "astarte_device_stream_aggregate",
      "esp_event_handler_instance_register">>

\* C8 as stated: a successful edgehog_device_new makes the four registrations
\* first, and then exactly the five hardware-info property writes, one
\* system-status publish, one listener registration and one scan request.
C8_ConstructionSequence ==
    (IsNew(last) /\ last.ret = "handle")
    => FnsOf(last.calls) =
           Adds(4) \o TelemetrySequence \o <<"esp_wifi_scan_start">>

\* C8, amended: a successful edgehog_device_new makes its registration calls
\* first (the four of them, in the order hardware-info, system-status,
\* wifi-scan-result, appliance-info, unless a mandatory one failed), then the
\* five hardware-info property writes, then one system-status publish, then
\* one listener registration, and then one scan request if that registration
\* succeeded and none if it failed; it makes no other call.
C8_ConstructionSequenceAmended ==
    (IsNew(last) /\ last.ret = "handle")
    => LET n == Cardinality(Position(last.calls,
                                     "astarte_device_add_interface"))
           reg == last.calls[n + Len(TelemetrySequence)]
           tail == IF reg.ok THEN <<"esp_wifi_scan_start">> ELSE <<>>
       IN  /\ n \in 1..4
           /\ FnsOf(last.calls) = Adds(n) \o TelemetrySequence \o tail
           /\ ~RegistrationFailed(last, MandatoryInterfaces)
              => SubSeq(TargetsOf(last.calls), 1, 4) =
                     <<hardware_info_interface,
                       system_status_status_interface,
                       wifi_scan_result_interface,
                       appliance_info_interface>>
           /\ \A i \in (n + 1)..(n + 5) :
                  last.calls[i].target = hardware_info_interface
           /\ last.calls[n + 6].target = system_status_status_interface

\* a construction whose listener registration failed: no scan is requested
C8_Witness ==
    /\ IsNew(last) /\ last.ret = "handle"
    /\ ~RegistrationFailed(last, Interfaces)
    /\ Position(last.calls, "esp_wifi_scan_start") = {}
    /\ Len(last.calls) = 4 + Len(TelemetrySequence)

----------------------------------------------------------------------------
(* C9 *)

\* C9: Missing connection handle.  edgehog_device_new called with a NULL
\* config, or with a config whose astarte_device is NULL, returns NULL, makes
\* no call to the platform (no registration, no publish, no listener, no
\* scan request) and changes nothing.
C9_MissingConnectionHandle ==
    [][ (IsNew(last') /\ last'.arg \in {"none", "no_astarte"})
        => /\ last'.ret = "NULL"
           /\ last'.calls = <<>>
           /\ UNCHANGED <<alive, dev, released, listeners, scanOwner,
                          pending, consumed, stored>> ]_vars

C9_Witness ==
    IsNew(last) /\ last.arg = "no_astarte" /\ last.ret = "NULL"

----------------------------------------------------------------------------
(* C10 *)

HexValue(c) == CHOOSE v \in 0..15 : HexDigits[v + 1] = c

\* the six bytes a colon-hex MAC of 17 characters stands for
ParseMac(mac) ==
    [k \in 1..6 |-> 16 * HexValue(mac[3 * k - 2]) + HexValue(mac[3 * k - 1])]

ColonHex(mac) ==
    /\ Len(mac) = 17
    /\ \A i \in 1..17 :
          IF i % 3 = 0 THEN mac[i] = ":"
          ELSE \E v \in 0..15 : HexDigits[v + 1] = mac[i]

\* the publish p is to /ap of the wifi-scan-result interface and carries the
\* channel, essid and rssi of the record ap and the colon-hex form of its bssid
PublishOf(p, ap) ==
    /\ p.target = wifi_scan_result_interface
    /\ p.path = "/ap"
    /\ p.doc.channel = ap.primary
    /\ p.doc.essid = ap.ssid
    /\ p.doc.rssi = ap.rssi
    /\ ColonHex(p.doc.macAddress)
    /\ ParseMac(p.doc.macAddress) = ap.bssid

\* C10: One publish per access point.  A handler run that retrieves the
\* records of a successful scan makes exactly one publish to /ap of the
\* wifi-scan-result interface per record the driver held, in the order of
\* the records, each with the record's channel, essid and rssi and the
\* colon-hex form of its bssid.
C10_OnePublishPerAccessPoint ==
    [][ (IsHandlerRun(last') /\ last'.status = 0
         /\ \E i \in 1..Len(last'.calls) :
                /\ last'.calls[i].fn = "esp_wifi_scan_get_ap_records"
                /\ last'.calls[i].ok)
        => LET pubs == CallsOf(last'.calls, "astarte_device_stream_aggregate")
               aps == pending.apList
           IN  /\ Len(pubs) = Len(aps)
               /\ \A i \in 1..Len(aps) : PublishOf(pubs[i], aps[i]) ]_vars

\* two records with the same essid and different bssid, published apart
C10_Witness ==
    /\ IsHandlerRun(last) /\ last.status = 0
    /\ Len(last.records) = 2
    /\ last.records[1].ssid = last.records[2].ssid
    /\ last.records[1].bssid # last.records[2].bssid
    /\ Len(ApPublishes(last)) = 2
    /\ ApPublishes(last)[1].doc # ApPublishes(last)[2].doc

----------------------------------------------------------------------------
(* C11 *)

\* the publish of an access point that the backend refused
RefusedPublishes(r) ==
    {i \in 1..Len(ApPublishes(r)) : ~ApPublishes(r)[i].ok}

\* C11: Per-record independence.  In a handler run that retrieved the records
\* of a successful scan and in which the publish of one record failed, every
\* record of the set has its publish all the same: there are as many
\* publishes to /ap as records, the publish at each position carries the
\* record at that position, and the publishes of the other records succeed.
C11_PerRecordIndependence ==
    (IsHandlerRun(last) /\ last.status = 0 /\ RefusedPublishes(last) # {})
    => /\ Len(ApPublishes(last)) = Len(last.records)
       /\ \A j \in 1..Len(last.records) :
              /\ PublishOf(ApPublishes(last)[j], last.records[j])
              /\ j \notin RefusedPublishes(last) => ApPublishes(last)[j].ok

\* the publish of the first of two records is refused, the second is
\* published after it
C11_Witness ==
    /\ IsHandlerRun(last) /\ last.status = 0
    /\ Len(last.records) = 2
    /\ RefusedPublishes(last) = {1}
    /\ Len(ApPublishes(last)) = 2
    /\ ApPublishes(last)[2].doc.rssi = last.records[2].rssi

----------------------------------------------------------------------------
(* C12 *)

\* C12: Failed scan cycle.  A handler run for a completion with a status
\* other than 0 makes no call to the platform (no access point is published,
\* no scan is requested), returns to the event loop with the process running,
\* and leaves the scan in progress, the devices and the partitions as they
\* were.
C12_FailedScanCycle ==
    [][ (last'.op = "handler" /\ last'.status # 0)
        => /\ last'.calls = <<>>
           /\ last'.ret = "void"
           /\ alive'
           /\ UNCHANGED <<scanOwner, dev, released, stored>> ]_vars

\* the handler of a device has run for the failed completion of the scan the
\* device requested
C12_Witness ==
    /\ last.op = "handler" /\ last.status = 1 /\ last.ret = "void"
    /\ last.owner = [who |-> "edgehog", dev |-> last.dev]
    /\ scanOwner = NoScan

----------------------------------------------------------------------------
(* C13 *)

\* C13: Absent or empty value.  A setter called with a NULL or an empty value
\* makes no publish and no partition write, leaves the stored values as they
\* were and returns ESP_OK.
C13_AbsentOrEmptyNoOp ==
    [][ (IsSetter(last') /\ last'.arg \in {NullStr, ""})
        => /\ Publishes(last') = <<>>
           /\ Writes(last') = <<>>
           /\ stored' = stored
           /\ last'.ret = "ESP_OK" ]_vars

----------------------------------------------------------------------------
(* C14 *)

\* a partition open or write of the setter call failed (a key that is absent
\* is no failure)
StorageFailed(r) == \E i \in 1..Len(r.calls) :
    /\ r.calls[i].fn \in {"nvs_open_from_partition", "nvs_set_str"}
    /\ ~r.calls[i].ok

\* C14: Storage errors are surfaced.  A setter call in which a partition open
\* or write failed returns an error to its caller, and the process runs on.
C14_StorageErrorsSurfaced ==
    (IsSetter(last) /\ StorageFailed(last))
    => (last.ret # "ESP_OK" /\ alive)

----------------------------------------------------------------------------
(* C15 *)

\* C15: Destruction.  edgehog_device_destroy on a live device makes exactly
\* one astarte_device_destroy call, on the connection the device wraps, and
\* frees that device and no other; on the NULL handle it makes no call, and
\* releases and frees nothing.
C15_Destruction ==
    [][ last'.op = "destroy"
        => IF last'.dev = 0
           THEN last'.calls = <<>> /\ UNCHANGED <<dev, released>>
           ELSE /\ dev[last'.dev].state = "live"
                /\ Len(last'.calls) = 1
                /\ last'.calls[1].fn = "astarte_device_destroy"
                /\ last'.calls[1].target = dev[last'.dev].astarte_device
                /\ released' = released + 1
                /\ dev' = [dev EXCEPT ![last'.dev].state = "freed"] ]_vars

\* one device was constructed and destroyed
C15_Witness ==
    /\ last.op = "destroy" /\ last.dev \in Handles
    /\ dev[last.dev].state = "freed"
    /\ released = 1
    /\ CallsOf(last.calls, "astarte_device_destroy") # <<>>

----------------------------------------------------------------------------
(* C16 *)

RetrievalFns == {"esp_wifi_scan_get_ap_num", "malloc",
                 "esp_wifi_scan_get_ap_records"}

\* a handler run for a successful completion in which the count, the buffer
\* or the records could not be had
RetrievalFailed(r) ==
    /\ IsHandlerRun(r) /\ r.status = 0
    /\ \E i \in 1..Len(r.calls) :
           r.calls[i].fn \in RetrievalFns /\ ~r.calls[i].ok

\* the buffers allocated and the buffers freed, by position in the calls
Allocated(r) == {i \in Position(r.calls, "malloc") : r.calls[i].ok}
Freed(r) == Position(r.calls, "free")

\* C16: Result retrieval failure.  A handler run for a successful completion
\* in which the count, the allocation of the buffer or the retrieval of the
\* records failed publishes no access point; the buffer, if it was
\* allocated, is freed exactly once, after its allocation, and no buffer is
\* freed otherwise; the handler requests no scan, makes its unregister call
\* last and returns to the event loop with the process running.
C16_RetrievalFailure ==
    RetrievalFailed(last)
    => /\ ApPublishes(last) = <<>>
       /\ Cardinality(Freed(last)) = Cardinality(Allocated(last))
       /\ Cardinality(Allocated(last)) <= 1
       /\ \A a \in Allocated(last), f \in Freed(last) : a < f
       /\ Position(last.calls, "esp_wifi_scan_start") = {}
       /\ Unregisters(last) = {Len(last.calls)}
       /\ last.ret = "void" /\ alive

\* the buffer was allocated, the records could not be retrieved, the buffer
\* was freed
C16_Witness ==
    /\ RetrievalFailed(last)
    /\ Cardinality(Allocated(last)) = 1
    /\ Cardinality(Freed(last)) = 1
    /\ \E i \in Position(last.calls, "esp_wifi_scan_get_ap_records") :
           ~last.calls[i].ok

----------------------------------------------------------------------------
(* C17 *)

\* C17: Subscribe-then-request.  Every scan request of a construction comes
\* after a successful registration of the handler in the same construction,
\* and a construction whose registration failed requests no scan; while the
\* scan a device requested is in progress, and when its completion is posted,
\* the handler of that device is registered.
C17_SubscribeThenRequest ==
    /\ IsNew(last)
       => LET regs == Position(last.calls,
                               "esp_event_handler_instance_register")
              starts == Position(last.calls, "esp_wifi_scan_start")
          IN  /\ \A s \in starts :
                     \E r \in regs : r < s /\ last.calls[r].ok
              /\ (\E r \in regs : ~last.calls[r].ok) => starts = {}
    /\ scanOwner.who = "edgehog" => Member(listeners, scanOwner.dev)
    /\ (last.op = "scan_done" /\ last.owner.who = "edgehog")
       => Member(pending.queue, last.owner.dev)

\* a construction that registered its handler and then had its scan request
\* accepted
C17_Witness ==
    /\ IsNew(last) /\ last.ret = "handle"
    /\ scanOwner = [who |-> "edgehog", dev |-> last.dev]
    /\ Member(listeners, last.dev)
    /\ last.calls[Len(last.calls)].fn = "esp_wifi_scan_start"
    /\ last.calls[Len(last.calls)].ok
    /\ last.calls[Len(last.calls) - 1].fn
           = "esp_event_handler_instance_register"

----------------------------------------------------------------------------
(* C18 *)

\* C18: At most one listener.  At most one handler of the library is
\* registered on WIFI_EVENT_SCAN_DONE at any time, and no completion is
\* handled twice: the event loop runs no second handler of the library for
\* the completion it has just run one for.
C18_AtMostOneListener ==
    [][ /\ Len(listeners') <= 1
        /\ ~(last.op = "handler" /\ last'.op = "handler") ]_vars

----------------------------------------------------------------------------
(* C19 *)

\* the property path a key is published on
PathOf(k) == IF k = "serial_number" THEN "/serialNumber" ELSE "/partNumber"

\* the call published value on the path of key k with success and, later in
\* the same call, wrote it to the partition with success
PublishedThenWritten(r, k, value) ==
    \E i, j \in 1..Len(r.calls) :
        /\ i < j
        /\ r.calls[i].fn = "astarte_device_set_string_property"
        /\ r.calls[i].path = PathOf(k)
        /\ r.calls[i].str = value
        /\ r.calls[i].ok
        /\ r.calls[j].fn = "nvs_set_str"
        /\ r.calls[j].target = k
        /\ r.calls[j].str = value
        /\ r.calls[j].ok

\* C19: Stored value was published.  The value stored in a partition for a
\* key changes only in a setter call for that key on a device of that
\* partition, and only to the argument of the call, after the publish of that
\* argument has succeeded in the call: a stored value is the initial one or
\* one that was published with success, never one whose publish failed or
\* was not attempted.
C19_StoredValueWasPublished ==
    [][ \A p \in PartitionNames, k \in Keys :
          stored'[p][k] # stored[p][k]
          => /\ IsSetter(last')
             /\ last'.key = k
             /\ dev[last'.dev].partition_name = p
             /\ stored'[p][k] = last'.arg
             /\ PublishedThenWritten(last', k, last'.arg) ]_vars

\* a setter call replaced a stored value by another after an earlier value
\* had been stored
C19_Witness ==
    /\ IsSetter(last)
    /\ last.before \notin {NoValue, last.arg}
    /\ stored[dev[last.dev].partition_name][last.key] = last.arg
    /\ PublishedThenWritten(last, last.key, last.arg)

----------------------------------------------------------------------------
(* C20 *)

\* the publish of the setter call succeeded and a partition open or write
\* that follows it in the call failed
PersistFailedAfterPublish(r) ==
    \E i, j \in 1..Len(r.calls) :
        /\ i < j
        /\ r.calls[i].fn = "astarte_device_set_string_property"
        /\ r.calls[i].ok
        /\ r.calls[j].fn \in {"nvs_open_from_partition", "nvs_set_str"}
        /\ ~r.calls[j].ok

\* C20: Publish succeeded but persist failed.  A setter call whose publish
\* succeeds and whose partition open or write then fails returns an error and
\* leaves the stored values as they were; and, the value being another than
\* the stored one, the same setter called next on the same device with the
\* same value publishes that value again.
C20_PublishedNotPersisted ==
    [][ /\ (IsSetter(last') /\ PersistFailedAfterPublish(last'))
           => /\ last'.ret = "NVS_ERR"
              /\ stored' = stored
        /\ (/\ IsSetter(last) /\ PersistFailedAfterPublish(last)
            /\ last.before # last.arg
            /\ last'.op = last.op /\ last'.dev = last.dev
            /\ last'.arg = last.arg)
           => \E i \in 1..Len(last'.calls) :
                 /\ last'.calls[i].fn = "astarte_device_set_string_property"
                 /\ last'.calls[i].str = last.arg ]_vars

====
